---- MODULE Spec2Model ----
(***************************************************************************)
(* Inventory reservation and allocation engine of the warehouse backend:   *)
(* src/inventory/models.py (Inventory, StockReservation,                   *)
(* ReservationAllocation, StockAdjustment), src/inventory/services.py      *)
(* (InventoryService) and src/inventory/signals.py (expiry sweep).         *)
(*                                                                         *)
(* Database model.  Every service operation runs in transaction.atomic on  *)
(* a READ COMMITTED database: a call reads committed rows when its query   *)
(* runs and its writes become visible together at commit.  A call is       *)
(* therefore two steps, the read (Begin) and the commit (Commit); model    *)
(* objects loaded at the read are written back whole by save(), as the     *)
(* ORM does.  select_for_update() on a reservation row is a lock held      *)
(* from the read to the commit.  StockAdjustment.apply_adjustment has no   *)
(* transaction: each save() commits on its own.  reserve_stock has a       *)
(* third step between the two (Save): the count that numbers the           *)
(* reservation is read after the lots are saved, which holds the product's *)
(* row against the other writers of lots until the commit.                 *)
(*                                                                         *)
(* Name resolution.  services.py reads the names Product (line 27),        *)
(* product.is_active_computed (35), product.allow_backorders (52) and      *)
(* models.Sum (186), none of which is bound where it is used.  The model   *)
(* reads them as products.Product, the product's active flag, the          *)
(* product's backorder flag and django.db.models.Sum.                      *)
(* receive_stock and find_best_location read product.length, width and     *)
(* height (services.py 311, 400), which Product does not have; the model   *)
(* reads them as the product's dimensions.                                 *)
(*                                                                         *)
(* One active product, kept in one StorageLocation of one Warehouse; its   *)
(* lots are the rows of Inventory.  Volumes and weights are whole numbers  *)
(* of units; Num tells the Decimal and int values from the floats.  Rows   *)
(* of StockReservation, ReservationAllocation, StockAdjustment that exist  *)
(* before the first call were entered through the admin site (admin.py).   *)
(***************************************************************************)
EXTENDS Integers, Sequences, FiniteSets, TLC

\* ---- bounds ----
NumLots == 2
MaxQty == 2
MaxRes == 2
MaxNow == 1
NumProcs == 2
UnitVolume == 1
UnitWeight == 1
MaxPlace == 2
MaxApplied == 2

Lots == 1..NumLots
Procs == 1..NumProcs
Qtys == 1..MaxQty
MaxOnHand == MaxQty + 1
MaxVolume == NumLots * MaxQty * UnitVolume
MaxWeight == NumLots * MaxQty * UnitWeight

\* status__in=['reserved', 'partially_reserved']
LiveStatus == {"reserved", "partially_reserved"}

VARIABLES
    inventory,        \* Inventory rows: lot -> record
    reservations,     \* StockReservation rows with their allocations, by id
    adjustment,       \* the StockAdjustment row with its items
    allow_backorders, \* product.allow_backorders
    now,              \* timezone.now()
    pc,               \* per caller: position in the call it is running
    loc,              \* per caller: what the running call has read so far
    ret,              \* per caller: result of the call it finished last
    released_times,   \* per reservation: release passes that gave stock back
    last_reserve,     \* the latest successful Reserve and the rows before it
    location,         \* the StorageLocation row in which the lots are stored
    warehouse         \* the Warehouse row of that location

vars == <<inventory, reservations, adjustment, allow_backorders, now,
          pc, loc, ret, released_times, last_reserve, location, warehouse>>

\* ---- helpers ----
RECURSIVE SumLines(_)
SumLines(lines) ==
    IF lines = <<>> THEN 0
    ELSE Head(lines).quantity + SumLines(Tail(lines))

RECURSIVE SumLinesOn(_, _)
SumLinesOn(lines, lot) ==
    IF lines = <<>> THEN 0
    ELSE (IF Head(lines).inventory = lot THEN Head(lines).quantity ELSE 0)
         + SumLinesOn(Tail(lines), lot)

\* max(...) where the code has min(...)
Min_max(a, b) == IF a <= b THEN b ELSE a

Min(a, b) == IF a <= b THEN a ELSE b

LotIds == [i \in 1..NumLots |-> i]

NoLoc == [res |-> 0, quantity |-> 0, snap |-> <<>>, ids |-> <<>>, idx |-> 0,
          expired |-> FALSE]
NoRet == [op |-> "none", res |-> 0, ok |-> FALSE, msg |-> "none", ids |-> <<>>,
          quantity |-> 0]

Result(op, res, ok, msg) == [NoRet EXCEPT !.op = op, !.res = res, !.ok = ok, !.msg = msg]

\* ---- Inventory (models.py) ----
\* Inventory.save: available_quantity is recomputed on every save
Inventory_save(inv) ==
    [inv EXCEPT !.available_quantity = inv.quantity - inv.reserved_quantity]

Inventory_reserve_stock(inv, quantity) ==
    IF inv.available_quantity >= quantity
    THEN [ok |-> TRUE,
          inv |-> Inventory_save([inv EXCEPT !.reserved_quantity = @ + quantity])]
    ELSE [ok |-> FALSE, inv |-> inv]

\* release_stock that forgets self.save(): available_quantity is not recomputed
Inventory_release_stock_nosave(inv, quantity) ==
    IF inv.reserved_quantity >= quantity
    THEN [ok |-> TRUE, inv |-> [inv EXCEPT !.reserved_quantity = @ - quantity]]
    ELSE [ok |-> FALSE, inv |-> inv]

Inventory_release_stock(inv, quantity) ==
    IF inv.reserved_quantity >= quantity
    THEN [ok |-> TRUE,
          inv |-> Inventory_save([inv EXCEPT !.reserved_quantity = @ - quantity])]
    ELSE [ok |-> FALSE, inv |-> inv]

Inventory_allocate_stock(inv, quantity) ==
    IF inv.reserved_quantity >= quantity /\ inv.quantity >= quantity
    THEN [ok |-> TRUE,
          inv |-> Inventory_save([inv EXCEPT !.quantity = @ - quantity,
                                             !.reserved_quantity = @ - quantity])]
    ELSE [ok |-> FALSE, inv |-> inv]

\* ---- StockReservation (models.py) ----
\* expires_at is a set: empty for NULL, else the one timestamp
is_expired(r, t) == \E e \in r.expires_at : t > e

can_allocate(r, t) == r.status \in LiveStatus /\ ~is_expired(r, t)

\* ---- InventoryService.check_product_availability ----
\* the candidate lots, in the queryset's order (Meta.ordering: warehouse, product)
AvailableInventories(inv, quantity) ==
    SelectSeq(LotIds, LAMBDA l : inv[l].status = "active"
                                 /\ inv[l].available_quantity >= quantity)

\* the query without the test of product.allow_backorders
check_product_availability_always(inv, quantity, backorders) ==
    LET available_inventories == AvailableInventories(inv, quantity) IN
    IF available_inventories = <<>>
    THEN [ok |-> TRUE, msg |-> "backorder", inventories |-> <<>>]
    ELSE [ok |-> TRUE, msg |-> "sufficient", inventories |-> available_inventories]

check_product_availability(inv, quantity, backorders) ==
    LET available_inventories == AvailableInventories(inv, quantity) IN
    IF available_inventories = <<>>
    THEN IF ~backorders
         THEN [ok |-> FALSE, msg |-> "insufficient", inventories |-> <<>>]
         ELSE [ok |-> TRUE, msg |-> "backorder", inventories |-> <<>>]
    ELSE [ok |-> TRUE, msg |-> "sufficient", inventories |-> available_inventories]

\* the query called on its own (InventoryViewSet, views.py:65)
CheckAvailability(p, quantity) ==
    /\ UNCHANGED <<location, warehouse>>
    /\ pc[p] = "idle"
    /\ LET c == check_product_availability(inventory, quantity, allow_backorders) IN
       ret' = [ret EXCEPT ![p] =
                 [Result("check", 0, c.ok, c.msg) EXCEPT !.ids = c.inventories,
                                                         !.quantity = quantity]]
    /\ UNCHANGED <<inventory, reservations, adjustment, allow_backorders, now,
                   pc, loc, released_times, last_reserve>>

\* ---- InventoryService.reserve_stock: the loop over the candidate lots ----
\* inv: the lots as loaded by the availability query; result: the lots as
\* saved, the lots written, the allocation lines and the remaining quantity
RECURSIVE ReserveLoop(_, _, _, _, _)
ReserveLoop(inv, inventories, remaining_quantity, written, lines) ==
    IF inventories = <<>> \/ remaining_quantity <= 0
    THEN [inv |-> inv, written |-> written, lines |-> lines,
          remaining |-> remaining_quantity]
    ELSE LET l == Head(inventories)
             allocate_qty == Min(remaining_quantity, inv[l].available_quantity)
             r == Inventory_reserve_stock(inv[l], allocate_qty)
         IN IF r.ok
            THEN ReserveLoop([inv EXCEPT ![l] = r.inv], Tail(inventories),
                             remaining_quantity - allocate_qty,
                             written \cup {l},
                             Append(lines, [inventory |-> l, quantity |-> allocate_qty]))
            ELSE ReserveLoop(inv, Tail(inventories), remaining_quantity,
                             written, lines)

\* rows after a commit that saves the lots in written from the loaded copies
WriteBack(db, inv, written) ==
    [l \in Lots |-> IF l \in written THEN inv[l] ELSE db[l]]

\* last_reserve once another commit has written lot rows
Stale == [res |-> 0, before |-> <<>>]

\* ---- numbers as Python holds them ----
\* the DecimalFields of a row and ints add up; a float added to a Decimal
\* raises TypeError
Num(v, is_float) == [v |-> v, float |-> is_float]

\* ---- StorageLocation.update_occupancy (models.py) ----
\* current_volume and current_weight are DecimalFields: the += / -= of a float
\* raises before self.save()
update_occupancy(l, volume, weight, action) ==
    IF volume.float \/ weight.float
    THEN [raised |-> TRUE, location |-> l]
    ELSE LET current_volume ==
                 IF action = "increase" THEN l.current_volume + volume.v
                 ELSE IF action = "decrease" THEN l.current_volume - volume.v
                 ELSE l.current_volume
             current_weight ==
                 IF action = "increase" THEN l.current_weight + weight.v
                 ELSE IF action = "decrease" THEN l.current_weight - weight.v
                 ELSE l.current_weight
         IN [raised |-> FALSE,
             location |-> [l EXCEPT !.current_volume = current_volume,
                                    !.current_weight = current_weight,
                                    !.is_full = \/ current_volume >= l.max_volume
                                                \/ current_weight >= l.max_weight]]

\* ---- Warehouse.update_capacity (models.py) ----
update_capacity(w, volume_change, action) ==
    IF volume_change.float
    THEN [raised |-> TRUE, warehouse |-> w]
    ELSE LET used_capacity ==
                 IF action = "increase" THEN w.used_capacity + volume_change.v
                 ELSE IF action = "decrease" THEN w.used_capacity - volume_change.v
                 ELSE w.used_capacity
         IN [raised |-> FALSE,
             warehouse |-> [w EXCEPT !.used_capacity =
                               IF used_capacity < 0 THEN 0 ELSE used_capacity]]

\* ---- initial states ----
\* the location and its warehouse as entered for n stored units
NewLocation(n) ==
    [current_volume |-> n * UnitVolume, current_weight |-> n * UnitWeight,
     max_volume |-> MaxVolume, max_weight |-> MaxWeight,
     is_full |-> n * UnitVolume >= MaxVolume \/ n * UnitWeight >= MaxWeight]

NewWarehouse(n) == [used_capacity |-> n * UnitVolume]

RECURSIVE Stored(_, _)
Stored(q, n) == IF n = 0 THEN 0 ELSE q[n] + Stored(q, n - 1)

InitStorage(q) ==
    /\ location = NewLocation(Stored(q, NumLots))
    /\ warehouse = NewWarehouse(Stored(q, NumLots))

NewLot(q, r) ==
    [quantity |-> q, reserved_quantity |-> r, available_quantity |-> q - r,
     status |-> "active", expiry_date |-> {}]

\* a batch of the product that has no Inventory row yet
NoLot == [NewLot(0, 0) EXCEPT !.status = "absent"]

\* a reservation entered through the admin with one unit on each of lots 1, 2
SeedReservation ==
    [reservation_number |-> 1, quantity |-> 2, backorder_quantity |-> 0,
     status |-> "reserved", expires_at |-> {}, released_at |-> FALSE,
     allocated_at |-> FALSE,
     allocations |-> <<[inventory |-> 1, quantity |-> 1],
                       [inventory |-> 2, quantity |-> 1]>>]

\* applied: per item, the passes of the loop of apply_adjustment that have
\* saved it (counted up to MaxApplied)
NoAdjustment == [status |-> "pending", items |-> <<>>, applied |-> <<>>]

\* lots holding the quantities q, with or without the seeded reservation
InitRows(q, seeded) ==
    /\ seeded => q[1] >= 1 /\ q[2] >= 1
    /\ reservations = IF seeded THEN <<SeedReservation>> ELSE <<>>
    /\ inventory = [l \in Lots |->
          NewLot(q[l], IF seeded /\ l <= 2 THEN 1 ELSE 0)]
    /\ released_times = IF seeded THEN <<0>> ELSE <<>>
    /\ InitStorage(q)

InitRest ==
    /\ adjustment = NoAdjustment
    /\ allow_backorders \in BOOLEAN
    /\ now = 0
    /\ pc = [p \in Procs |-> "idle"]
    /\ loc = [p \in Procs |-> NoLoc]
    /\ ret = [p \in Procs |-> NoRet]
    /\ last_reserve = Stale

Init ==
    /\ \E seeded \in BOOLEAN, q \in [Lots -> 0..MaxQty] : InitRows(q, seeded)
    /\ InitRest

\* every lot full
InitFull ==
    /\ \E seeded \in BOOLEAN : InitRows([l \in Lots |-> MaxQty], seeded)
    /\ InitRest

\* lots that carry expiry dates (Inventory.expiry_date), no reservation yet
ExpiryDates == {{}} \cup {{d} : d \in 1..NumLots}

InitExpiring ==
    /\ \E q \in [Lots -> 0..MaxQty], e \in [Lots -> ExpiryDates] :
         /\ inventory = [l \in Lots |-> [NewLot(q[l], 0) EXCEPT !.expiry_date = e[l]]]
         /\ reservations = <<>>
         /\ released_times = <<>>
         /\ InitStorage(q)
    /\ InitRest

\* batches of the product of which some have no Inventory row yet
InitReceive ==
    /\ \E q \in [Lots -> 0..MaxQty], present \in [Lots -> BOOLEAN] :
         /\ inventory = [l \in Lots |->
                IF present[l] THEN NewLot(q[l], 0) ELSE NoLot]
         /\ \A l \in Lots : ~present[l] => q[l] = 0
         /\ reservations = <<>>
         /\ released_times = <<>>
         /\ InitStorage(q)
    /\ InitRest

\* ---- InventoryService.reserve_stock ----
Reserve_Begin(p, quantity) ==
    /\ UNCHANGED <<location, warehouse>>
    /\ pc[p] = "idle"
    /\ Len(reservations)
         + Cardinality({c \in Procs : pc[c] \in {"reserving", "saving"}}) < MaxRes
    /\ LET c == check_product_availability(inventory, quantity, allow_backorders) IN
       IF ~c.ok
       THEN /\ ret' = [ret EXCEPT ![p] =
                 Result("reserve", 0, FALSE, c.msg)]
            /\ UNCHANGED <<pc, loc>>
       ELSE /\ pc' = [pc EXCEPT ![p] = "reserving"]
            /\ loc' = [loc EXCEPT ![p] =
                 [NoLoc EXCEPT !.quantity = quantity, !.snap = inventory,
                               !.ids = c.inventories]]
            /\ UNCHANGED ret
    /\ UNCHANGED <<inventory, reservations, adjustment, allow_backorders, now,
                   released_times, last_reserve>>

\* the lots that the loop of caller c saves
Writes(c) == ReserveLoop(loc[c].snap, loc[c].ids, loc[c].quantity, {}, <<>>).written

\* Inventory.save ends in update_product_stock, which saves the Product row:
\* a caller that has saved a lot holds the row of the product until it commits
ProductLocked(p) ==
    \E c \in Procs \ {p} : pc[c] = "saving" /\ Writes(c) # {}

\* generate_reservation_number: the rows that carry today's prefix, counted
\* by StockReservation.save after the loop has saved its lots; idx keeps the
\* count
Reserve_Save(p) ==
    /\ UNCHANGED <<location, warehouse>>
    /\ pc[p] = "reserving"
    /\ Writes(p) # {} => ~ProductLocked(p)
    /\ pc' = [pc EXCEPT ![p] = "saving"]
    /\ loc' = [loc EXCEPT ![p].idx = Len(reservations)]
    /\ UNCHANGED <<inventory, reservations, adjustment, allow_backorders, now,
                   ret, released_times, last_reserve>>

\* the lots with nothing left of the call: inventory.save() without
\* transaction.atomic around it
Rollback_none(db, inv, written) == WriteBack(db, inv, written)

\* @transaction.atomic: an exception that leaves reserve_stock undoes the
\* rows the call has saved
Rollback(db, inv, written) == db

\* super().save(): reservation_number is unique, the insert of a number that
\* another row carries raises IntegrityError, which reserve_stock does not catch
Reserve_Commit(p) ==
    /\ UNCHANGED <<location, warehouse>>
    /\ pc[p] = "saving"
    /\ LET quantity == loc[p].quantity
           r == ReserveLoop(loc[p].snap, loc[p].ids, quantity, {}, <<>>)
           id == Len(reservations) + 1
           reservation_number == loc[p].idx + 1
           reservation ==
               [reservation_number |-> reservation_number, quantity |-> quantity,
                backorder_quantity |-> IF r.remaining > 0 THEN r.remaining ELSE 0,
                status |-> "reserved", expires_at |-> {},
                released_at |-> FALSE, allocated_at |-> FALSE,
                allocations |-> r.lines]
       IN IF \E n \in 1..Len(reservations) :
                 reservations[n].reservation_number = reservation_number
          THEN /\ inventory' = Rollback(inventory, r.inv, r.written)
               /\ ret' = [ret EXCEPT ![p] =
                      [Result("reserve", 0, FALSE, "raised") EXCEPT
                          !.ids = loc[p].ids, !.quantity = quantity]]
               /\ UNCHANGED <<reservations, released_times, last_reserve>>
          ELSE /\ last_reserve' = [res |-> id, before |-> inventory]
               /\ inventory' = WriteBack(inventory, r.inv, r.written)
               /\ reservations' = Append(reservations, reservation)
               /\ released_times' = Append(released_times, 0)
               /\ ret' = [ret EXCEPT ![p] =
                      Result("reserve", id, TRUE, "reserved")]
    /\ pc' = [pc EXCEPT ![p] = "idle"]
    /\ loc' = [loc EXCEPT ![p] = NoLoc]
    /\ UNCHANGED <<adjustment, allow_backorders, now>>

\* select_for_update() in release_stock only: allocate_stock reads the row
\* with a plain get() and holds no lock on it
Locked_release(r, p) ==
    \E c \in Procs \ {p} : pc[c] = "releasing" /\ loc[c].res = r

\* get() without select_for_update(): no caller ever waits for the row
Locked_none(r, p) == FALSE

\* ---- select_for_update() on a reservation row ----
\* the row is locked by a caller between its locking read and its commit
Locked(r, p) ==
    \E c \in Procs \ {p} : pc[c] \in {"releasing", "allocating"} /\ loc[c].res = r

\* ---- InventoryService.release_stock ----
\* the loop over reservation.allocations; the result of
\* inventory.release_stock is not looked at
RECURSIVE ReleaseLoop(_, _, _)
ReleaseLoop(inv, allocations, written) ==
    IF allocations = <<>>
    THEN [inv |-> inv, written |-> written]
    ELSE LET a == Head(allocations)
             r == Inventory_release_stock(inv[a.inventory], a.quantity)
         IN IF r.ok
            THEN ReleaseLoop([inv EXCEPT ![a.inventory] = r.inv],
                             Tail(allocations), written \cup {a.inventory})
            ELSE ReleaseLoop(inv, Tail(allocations), written)

\* get(id=...) without the status filter
ReservationFound_any(res, r) == r \in 1..Len(res)

\* StockReservation.objects.select_for_update().get(id=..., status__in=[...])
ReservationFound(res, r) == r \in 1..Len(res) /\ res[r].status \in LiveStatus

Release_Begin(p, r) ==
    /\ UNCHANGED <<location, warehouse>>
    /\ pc[p] = "idle"
    /\ r \in 1..Len(reservations)
    /\ ~Locked(r, p)
    /\ IF ~ReservationFound(reservations, r)
       THEN /\ ret' = [ret EXCEPT ![p] = Result("release", r, FALSE, "not_found")]
            /\ UNCHANGED <<pc, loc>>
       ELSE /\ pc' = [pc EXCEPT ![p] = "releasing"]
            /\ loc' = [loc EXCEPT ![p] = [NoLoc EXCEPT !.res = r, !.snap = inventory]]
            /\ UNCHANGED ret
    /\ UNCHANGED <<inventory, reservations, adjustment, allow_backorders, now,
                   released_times, last_reserve>>

Release_Commit(p) ==
    /\ UNCHANGED <<location, warehouse>>
    /\ pc[p] = "releasing"
    /\ reservations[loc[p].res].allocations # <<>> => ~ProductLocked(p)
    /\ LET r == loc[p].res
           l == ReleaseLoop(loc[p].snap, reservations[r].allocations, {})
       IN /\ inventory' = WriteBack(inventory, l.inv, l.written)
          /\ reservations' = [reservations EXCEPT ![r].status = "released",
                                                  ![r].released_at = TRUE]
          /\ released_times' = [released_times EXCEPT ![r] =
                 IF l.written # {} THEN @ + 1 ELSE @]
          /\ last_reserve' = IF last_reserve.res = r THEN last_reserve ELSE Stale
          /\ ret' = [ret EXCEPT ![p] = Result("release", r, TRUE, "released")]
    /\ pc' = [pc EXCEPT ![p] = "idle"]
    /\ loc' = [loc EXCEPT ![p] = NoLoc]
    /\ UNCHANGED <<adjustment, allow_backorders, now>>

\* ---- InventoryService.allocate_stock ----
\* the loop over reservation.allocations: the first lot that refuses ends
\* the call with a plain return
RECURSIVE AllocateLoop(_, _, _)
AllocateLoop(inv, allocations, written) ==
    IF allocations = <<>>
    THEN [ok |-> TRUE, inv |-> inv, written |-> written]
    ELSE LET a == Head(allocations)
             r == Inventory_allocate_stock(inv[a.inventory], a.quantity)
         IN IF ~r.ok
            THEN [ok |-> FALSE, inv |-> inv, written |-> written]
            ELSE AllocateLoop([inv EXCEPT ![a.inventory] = r.inv],
                              Tail(allocations), written \cup {a.inventory})

Allocate_Begin(p, r) ==
    /\ UNCHANGED <<location, warehouse>>
    /\ pc[p] = "idle"
    /\ r \in 1..Len(reservations)
    /\ ~Locked(r, p)
    /\ IF ~ReservationFound(reservations, r)
       THEN /\ ret' = [ret EXCEPT ![p] = Result("allocate", r, FALSE, "not_found")]
            /\ UNCHANGED <<pc, loc>>
       ELSE /\ pc' = [pc EXCEPT ![p] = "allocating"]
            /\ loc' = [loc EXCEPT ![p] =
                 [NoLoc EXCEPT !.res = r, !.snap = inventory,
                               !.expired = is_expired(reservations[r], now)]]
            /\ UNCHANGED ret
    /\ UNCHANGED <<inventory, reservations, adjustment, allow_backorders, now,
                   released_times, last_reserve>>

\* Inventory.allocate_stock: product_volume = self.product.volume if
\* hasattr(self.product, 'volume') else 0.  Product has no attribute volume
Product_volume == [hasattr |-> FALSE, v |-> 0]

\* if self.location: ... volume_change = product_volume * quantity;
\* update_occupancy(volume_change, 0, 'decrease');
\* update_capacity(volume_change, 'decrease')
ReleaseOccupancy(l, w, quantity) ==
    LET product_volume == IF Product_volume.hasattr THEN Product_volume.v ELSE 0
        volume_change == Num(product_volume * quantity, FALSE)
        occ == update_occupancy(l, volume_change, Num(0, FALSE), "decrease")
        cap == update_capacity(w, volume_change, "decrease")
    IN [location |-> occ.location, warehouse |-> cap.warehouse]

\* the location and the warehouse after the lines that AllocateLoop deducts
RECURSIVE AllocateOccupancy(_, _, _, _)
AllocateOccupancy(inv, l, w, allocations) ==
    IF allocations = <<>>
    THEN [location |-> l, warehouse |-> w]
    ELSE LET a == Head(allocations)
             r == Inventory_allocate_stock(inv[a.inventory], a.quantity)
         IN IF ~r.ok
            THEN [location |-> l, warehouse |-> w]
            ELSE LET o == ReleaseOccupancy(l, w, a.quantity) IN
                 AllocateOccupancy([inv EXCEPT ![a.inventory] = r.inv],
                                   o.location, o.warehouse, Tail(allocations))

Allocate_Commit(p) ==
    /\ pc[p] = "allocating"
    /\ reservations[loc[p].res].allocations # <<>> => ~ProductLocked(p)
    /\ LET r == loc[p].res
           reservation == reservations[r]
           total_allocated == SumLines(reservation.allocations)
       IN IF total_allocated < reservation.quantity - reservation.backorder_quantity
          THEN /\ ret' = [ret EXCEPT ![p] = Result("allocate", r, FALSE, "shortfall")]
               /\ UNCHANGED <<inventory, reservations, last_reserve,
                              location, warehouse>>
          ELSE LET l == AllocateLoop(loc[p].snap, reservation.allocations, {})
                   o == AllocateOccupancy(loc[p].snap, location, warehouse,
                                          reservation.allocations)
               IN
               /\ inventory' = WriteBack(inventory, l.inv, l.written)
               /\ location' = o.location
               /\ warehouse' = o.warehouse
               /\ last_reserve' = IF l.written # {} THEN Stale ELSE last_reserve
               /\ IF l.ok
                  THEN /\ reservations' = [reservations EXCEPT
                              ![r].status = "allocated", ![r].allocated_at = TRUE]
                       /\ ret' = [ret EXCEPT ![p] =
                              Result("allocate", r, TRUE, "allocated")]
                  ELSE /\ ret' = [ret EXCEPT ![p] =
                              Result("allocate", r, FALSE, "failed")]
                       /\ UNCHANGED reservations
    /\ pc' = [pc EXCEPT ![p] = "idle"]
    /\ loc' = [loc EXCEPT ![p] = NoLoc]
    /\ UNCHANGED <<adjustment, allow_backorders, now, released_times>>

\* ---- cleanup_expired_reservations (signals.py) ----
RECURSIVE Descending(_)
Descending(n) == IF n = 0 THEN <<>> ELSE <<n>> \o Descending(n - 1)

\* the filter written as expires_at__gt=now
ExpiredReservations_gt(res, t) ==
    SelectSeq(Descending(Len(res)),
              LAMBDA r : res[r].status \in LiveStatus
                         /\ \E e \in res[r].expires_at : e > t)

\* filter(status__in=[...], expires_at__lt=now), in Meta.ordering (-reserved_at)
ExpiredReservations(res, t) ==
    SelectSeq(Descending(Len(res)),
              LAMBDA r : res[r].status \in LiveStatus /\ is_expired(res[r], t))

\* the for loop of the pass: InventoryService.release_stock(reservation.id)
\* for each row of the queryset, inside the pass's own transaction
RECURSIVE SweepLoop(_, _, _, _)
SweepLoop(inv, res, times, ids) ==
    IF ids = <<>>
    THEN [inv |-> inv, res |-> res, times |-> times]
    ELSE LET r == Head(ids) IN
         IF ~ReservationFound(res, r)
         THEN SweepLoop(inv, res, times, Tail(ids))
         ELSE LET l == ReleaseLoop(inv, res[r].allocations, {}) IN
              SweepLoop(l.inv,
                        [res EXCEPT ![r].status = "released", ![r].released_at = TRUE],
                        [times EXCEPT ![r] = IF l.written # {} THEN @ + 1 ELSE @],
                        Tail(ids))

\* count = expired_reservations.count(); if count > 0: ...
Sweep_Begin(p) ==
    /\ UNCHANGED <<location, warehouse>>
    /\ pc[p] = "idle"
    /\ IF Len(ExpiredReservations(reservations, now)) > 0
       THEN /\ pc' = [pc EXCEPT ![p] = "sweeping"]
            /\ UNCHANGED ret
       ELSE /\ ret' = [ret EXCEPT ![p] = Result("sweep", 0, TRUE, "none")]
            /\ UNCHANGED pc
    /\ UNCHANGED <<inventory, reservations, adjustment, allow_backorders, now,
                   loc, released_times, last_reserve>>

\* with transaction.atomic(): for reservation in expired_reservations: ...
\* fail_at = 0: every release returns; fail_at = i: the i-th release raises
\* (any statement of the ORM can raise DatabaseError), the exception leaves
\* the atomic block, which rolls the pass back, and is logged by the handler
Sweep_Run(p, fail_at) ==
    /\ UNCHANGED <<location, warehouse>>
    /\ pc[p] = "sweeping"
    /\ LET ids == ExpiredReservations(reservations, now) IN
       /\ fail_at \in 0..Len(ids)
       /\ \A i \in 1..Len(ids) : ~Locked(ids[i], p)
       /\ (\E i \in 1..Len(ids) : reservations[ids[i]].allocations # <<>>)
          => ~ProductLocked(p)
       /\ IF fail_at = 0
          THEN LET s == SweepLoop(inventory, reservations, released_times, ids) IN
               /\ inventory' = s.inv
               /\ reservations' = s.res
               /\ released_times' = s.times
               /\ last_reserve' =
                     IF \A i \in 1..Len(ids) : ids[i] = last_reserve.res
                     THEN last_reserve ELSE Stale
               /\ ret' = [ret EXCEPT ![p] =
                     [Result("sweep", 0, TRUE, "swept") EXCEPT !.ids = ids]]
          ELSE /\ ret' = [ret EXCEPT ![p] =
                     [Result("sweep", ids[fail_at], FALSE, "error") EXCEPT !.ids = ids]]
               /\ UNCHANGED <<inventory, reservations, released_times, last_reserve>>
    /\ pc' = [pc EXCEPT ![p] = "idle"]
    /\ UNCHANGED <<adjustment, allow_backorders, now, loc>>

\* ---- StockReservationViewSet (ModelViewSet): update of expires_at ----
SetExpiresAt(r, t) ==
    /\ UNCHANGED <<location, warehouse>>
    /\ r \in 1..Len(reservations)
    /\ reservations[r].expires_at = {}
    /\ ~Locked(r, 0)
    /\ reservations' = [reservations EXCEPT ![r].expires_at = {t}]
    /\ UNCHANGED <<inventory, adjustment, allow_backorders, now, pc, loc, ret,
                   released_times, last_reserve>>

\* update of status to cancelled (RESERVATION_STATUS, writable in the serializer)
CancelReservation(r) ==
    /\ UNCHANGED <<location, warehouse>>
    /\ r \in 1..Len(reservations)
    /\ reservations[r].status \in LiveStatus
    /\ ~Locked(r, 0)
    /\ reservations' = [reservations EXCEPT ![r].status = "cancelled"]
    /\ UNCHANGED <<inventory, adjustment, allow_backorders, now, pc, loc, ret,
                   released_times, last_reserve>>

\* ---- time passes ----
Tick ==
    /\ UNCHANGED <<location, warehouse>>
    /\ now < MaxNow
    /\ now' = now + 1
    /\ UNCHANGED <<inventory, reservations, adjustment, allow_backorders,
                   pc, loc, ret, released_times, last_reserve>>

\* ---- StockAdjustment ----
AdjustmentItem(l, d, reason) ==
    [inventory |-> l, quantity_change |-> d, adjustment_reason |-> reason]

Deltas == {0 - 1, 1}

\* the item lists an adjustment is entered with: one item on any lot, or
\* one item on each of lots 1 and 2
AdjustmentItemLists ==
    { <<AdjustmentItem(l, d, "counting_error")>> : l \in Lots, d \in Deltas }
    \cup
    { <<AdjustmentItem(l, 0 - 1, "damaged")>> : l \in Lots }
    \cup
    { <<AdjustmentItem(1, d[1], "counting_error"),
        AdjustmentItem(2, d[2], "counting_error")>> : d \in [1..2 -> Deltas] }

\* the adjustment is entered and approved (admin.py, StockAdjustmentAdmin)
ApproveAdjustment(items) ==
    /\ UNCHANGED <<location, warehouse>>
    /\ adjustment = NoAdjustment
    /\ adjustment' = [status |-> "approved", items |-> items,
                      applied |-> [i \in 1..Len(items) |-> 0]]
    /\ UNCHANGED <<inventory, reservations, allow_backorders, now, pc, loc, ret,
                   released_times, last_reserve>>

\* one pass of the loop body of apply_adjustment on the item's lot
ApplyItem(inv, item) ==
    LET q == inv.quantity + item.quantity_change
        clamped == [inv EXCEPT !.quantity = IF q < 0 THEN 0 ELSE q]
        marked == IF item.adjustment_reason \in {"damaged", "expired"}
                  THEN [clamped EXCEPT !.status = item.adjustment_reason]
                  ELSE clamped
    IN Inventory_save(marked)

\* if self.status != 'approved': return False
Apply_Begin(p) ==
    /\ UNCHANGED <<location, warehouse>>
    /\ pc[p] = "idle"
    /\ adjustment # NoAdjustment
    /\ IF adjustment.status # "approved"
       THEN /\ ret' = [ret EXCEPT ![p] = Result("adjust", 0, FALSE, "not_approved")]
            /\ UNCHANGED <<pc, loc>>
       ELSE /\ pc' = [pc EXCEPT ![p] = "adjusting"]
            /\ loc' = [loc EXCEPT ![p] = [NoLoc EXCEPT !.idx = 1, !.snap = inventory]]
            /\ UNCHANGED ret
    /\ UNCHANGED <<inventory, reservations, adjustment, allow_backorders, now,
                   released_times, last_reserve>>

\* for item in self.adjustment_items.all(): ... inventory.save()
\* (quantities above MaxOnHand are not explored)
Apply_Item(p) ==
    /\ UNCHANGED <<location, warehouse>>
    /\ pc[p] = "adjusting"
    /\ loc[p].idx <= Len(adjustment.items)
    /\ LET item == adjustment.items[loc[p].idx] IN
       /\ inventory[item.inventory].quantity + item.quantity_change <= MaxOnHand
       /\ inventory' = [inventory EXCEPT ![item.inventory] = ApplyItem(@, item)]
    /\ loc' = [loc EXCEPT ![p].idx = @ + 1]
    /\ last_reserve' = Stale
    /\ adjustment' = [adjustment EXCEPT !.applied[loc[p].idx] =
                          IF @ < MaxApplied THEN @ + 1 ELSE @]
    /\ UNCHANGED <<reservations, allow_backorders, now, pc, ret,
                   released_times>>

\* self.status = 'completed'; self.save(); return True
Apply_End(p) ==
    /\ UNCHANGED <<location, warehouse>>
    /\ pc[p] = "adjusting"
    /\ loc[p].idx > Len(adjustment.items)
    /\ adjustment' = [adjustment EXCEPT !.status = "completed"]
    /\ ret' = [ret EXCEPT ![p] = Result("adjust", 0, TRUE, "completed")]
    /\ pc' = [pc EXCEPT ![p] = "idle"]
    /\ loc' = [loc EXCEPT ![p] = NoLoc]
    /\ UNCHANGED <<inventory, reservations, allow_backorders, now,
                   released_times, last_reserve>>

\* inventory.save() of an item raises (DatabaseError): apply_adjustment has
\* no transaction and no handler, the exception ends the call where it is
Apply_Raise(p) ==
    /\ UNCHANGED <<location, warehouse>>
    /\ pc[p] = "adjusting"
    /\ loc[p].idx <= Len(adjustment.items)
    /\ ret' = [ret EXCEPT ![p] = Result("adjust", 0, FALSE, "raised")]
    /\ pc' = [pc EXCEPT ![p] = "idle"]
    /\ loc' = [loc EXCEPT ![p] = NoLoc]
    /\ UNCHANGED <<inventory, reservations, adjustment, allow_backorders, now,
                   released_times, last_reserve>>

\* ---- WarehouseService.receive_stock ----
\* Inventory.objects.get_or_create(product, warehouse, batch_number,
\* defaults={'quantity': 0, ...})
get_or_create(inv, batch) ==
    IF inv[batch].status = "absent"
    THEN [inv EXCEPT ![batch] = NewLot(0, 0)]
    ELSE inv

\* warehouse_found: the product and the warehouse exist and are active;
\* location_id: "none" (not given), "missing" (no such active location in the
\* warehouse) or "found"; batch: the lot that batch_number names;
\* dimensions: product.length, width and height are all set.
\* Not given: find_best_location filters StorageLocation on available_volume
\* and available_weight, which are properties and not fields, and filter()
\* raises FieldError.  Found: product_weight is float(product.weight or 0), the
\* volume is a float when the dimensions are set and the int 0 when not.
\* An exception leaves transaction.atomic, which rolls back what the call
\* wrote, and no handler of receive_stock catches it; a return commits.
ReceiveLocations == {"none", "missing", "found"}

ReceiveStock(p, quantity, warehouse_found, location_id, batch, dimensions) ==
    /\ pc[p] = "idle"
    /\ LET created == get_or_create(inventory, batch)
           received == [created EXCEPT ![batch] =
                           Inventory_save([@ EXCEPT !.quantity = @ + quantity])]
           product_volume == IF dimensions THEN Num(UnitVolume * quantity, TRUE)
                             ELSE Num(0, FALSE)
           product_weight == Num(UnitWeight * quantity, TRUE)
           occ == update_occupancy(location, product_volume, product_weight,
                                   "increase")
           cap == update_capacity(warehouse, product_volume, "increase")
           result(ok, msg) ==
               [Result("receive", 0, ok, msg) EXCEPT !.quantity = quantity]
       IN IF ~warehouse_found
          THEN /\ ret' = [ret EXCEPT ![p] = result(FALSE, "not_found")]
               /\ UNCHANGED <<inventory, location, warehouse>>
          ELSE IF location_id = "missing"
          THEN /\ ret' = [ret EXCEPT ![p] = result(FALSE, "location_not_found")]
               /\ inventory' = created
               /\ UNCHANGED <<location, warehouse>>
          ELSE IF location_id = "none" \/ occ.raised \/ cap.raised
          THEN /\ ret' = [ret EXCEPT ![p] = result(FALSE, "raised")]
               /\ UNCHANGED <<inventory, location, warehouse>>
          ELSE /\ ret' = [ret EXCEPT ![p] = result(TRUE, "received")]
               /\ inventory' = received
               /\ location' = occ.location
               /\ warehouse' = cap.warehouse
    /\ UNCHANGED <<reservations, adjustment, allow_backorders, now,
                   pc, loc, released_times, last_reserve>>

\* ---- StorageLocation and Warehouse counters, called as the services call them ----
\* location.update_occupancy(volume, weight, 'increase');
\* warehouse.update_capacity(volume, 'increase'), with Decimal amounts
\* (counters beyond MaxPlace above the capacity are not explored)
Place(volume, weight) ==
    /\ location.current_volume + volume <= location.max_volume + MaxPlace
    /\ location.current_weight + weight <= location.max_weight + MaxPlace
    /\ LET occ == update_occupancy(location, Num(volume, FALSE),
                                   Num(weight, FALSE), "increase")
           cap == update_capacity(warehouse, Num(volume, FALSE), "increase")
       IN /\ location' = occ.location
          /\ warehouse' = cap.warehouse
    /\ UNCHANGED <<inventory, reservations, adjustment, allow_backorders, now,
                   pc, loc, ret, released_times, last_reserve>>

\* self.location.update_occupancy(volume_change, 0, 'decrease');
\* self.warehouse.update_capacity(volume_change, 'decrease')
\* (counters more than MaxPlace below zero are not explored)
Remove(volume) ==
    /\ location.current_volume - volume >= 0 - MaxPlace
    /\ LET occ == update_occupancy(location, Num(volume, FALSE),
                                   Num(0, FALSE), "decrease")
           cap == update_capacity(warehouse, Num(volume, FALSE), "decrease")
       IN /\ location' = occ.location
          /\ warehouse' = cap.warehouse
    /\ UNCHANGED <<inventory, reservations, adjustment, allow_backorders, now,
                   pc, loc, ret, released_times, last_reserve>>

\* ---- specifications ----
CheckCalls(P) == \E p \in P, q \in Qtys : CheckAvailability(p, q)

ReceiveCalls(P) ==
    \E p \in P, q \in Qtys, w \in BOOLEAN, l \in ReceiveLocations,
       b \in Lots, d \in BOOLEAN :
        ReceiveStock(p, q, w, l, b, d)

OccupancyCalls ==
    \/ \E v \in 0..MaxPlace, w \in 0..MaxPlace : Place(v, w)
    \/ \E v \in 0..MaxPlace : Remove(v)

ReserveCalls(P) ==
    \/ \E p \in P, q \in Qtys : Reserve_Begin(p, q)
    \/ \E p \in P : Reserve_Save(p)
    \/ \E p \in P : Reserve_Commit(p)

ReleaseCalls(P) ==
    \/ \E p \in P, r \in 1..MaxRes : Release_Begin(p, r)
    \/ \E p \in P : Release_Commit(p)

AllocateCalls(P) ==
    \/ \E p \in P, r \in 1..MaxRes : Allocate_Begin(p, r)
    \/ \E p \in P : Allocate_Commit(p)

SweepCalls(P) ==
    \/ \E p \in P : Sweep_Begin(p)
    \/ \E p \in P, f \in 0..MaxRes : Sweep_Run(p, f)

Expiry ==
    \/ \E r \in 1..MaxRes, t \in 0..MaxNow : SetExpiresAt(r, t)
    \/ Tick

AdjustCalls(P) ==
    \/ \E items \in AdjustmentItemLists : ApproveAdjustment(items)
    \/ \E p \in P : Apply_Begin(p)
    \/ \E p \in P : Apply_Item(p)
    \/ \E p \in P : Apply_End(p)

\* the stock ledger: reserve, release, commit and adjust, one call at a time
Next ==
    \/ ReserveCalls({1})
    \/ ReleaseCalls({1})
    \/ AllocateCalls({1})
    \/ AdjustCalls({1})

Spec == Init /\ [][Next]_vars

\* reservations that expire: one caller, the sweep and the clock
NextExpiry ==
    \/ ReserveCalls({1})
    \/ ReleaseCalls({1})
    \/ AllocateCalls({1})
    \/ SweepCalls({1})
    \/ Expiry

SpecExpiry == Init /\ [][NextExpiry]_vars

\* reserve on lots with expiry dates
NextExpiring == ReserveCalls({1})

SpecExpiring == InitExpiring /\ [][NextExpiring]_vars

\* reserve and release, one call at a time
NextRoundTrip ==
    \/ ReserveCalls({1})
    \/ ReleaseCalls({1})

SpecRoundTrip == Init /\ [][NextRoundTrip]_vars

\* reserve and the sweep, one call at a time
NextSweep ==
    \/ ReserveCalls({1})
    \/ SweepCalls({1})
    \/ Expiry

SpecSweep == InitFull /\ [][NextSweep]_vars

\* concurrent callers of reserve
NextReserveRace == ReserveCalls(Procs)

SpecReserveRace == Init /\ [][NextReserveRace]_vars

\* concurrent callers of release and of the sweep, on the same reservation
NextReleaseRace ==
    \/ ReleaseCalls(Procs)
    \/ SweepCalls(Procs)
    \/ Expiry

SpecReleaseRace == Init /\ [][NextReleaseRace]_vars

\* release, allocate and the sweep by concurrent callers on a reservation that
\* can also be cancelled
Cancel == \E r \in 1..MaxRes : CancelReservation(r)

NextTerminal ==
    \/ ReleaseCalls(Procs)
    \/ AllocateCalls(Procs)
    \/ SweepCalls(Procs)
    \/ Expiry
    \/ Cancel

SpecTerminal == InitFull /\ [][NextTerminal]_vars

\* adjustments, with saves that can raise
NextAdjust ==
    \/ AdjustCalls({1})
    \/ \E p \in {1} : Apply_Raise(p)

SpecAdjust == Init /\ [][NextAdjust]_vars

\* the availability query next to reserve
NextCheck ==
    \/ CheckCalls({1})
    \/ ReserveCalls({1})

SpecCheck == Init /\ [][NextCheck]_vars

\* the public operations of the service classes, one call at a time
NextCore ==
    \/ CheckCalls({1})
    \/ ReserveCalls({1})
    \/ ReleaseCalls({1})
    \/ AllocateCalls({1})
    \/ ReceiveCalls({1})

SpecCore == Init /\ [][NextCore]_vars

\* the counters of the location and of the warehouse
NextOccupancy == OccupancyCalls

SpecOccupancy == Init /\ [][NextOccupancy]_vars

\* receipts, next to the availability query
NextReceive ==
    \/ CheckCalls({1})
    \/ ReceiveCalls({1})

SpecReceive == InitReceive /\ [][NextReceive]_vars

\* the four operations on reservations, each by its own caller, interleaved
NextLedgerRace ==
    \/ ReserveCalls({1})
    \/ ReleaseCalls({2})
    \/ AllocateCalls({2})
    \/ SweepCalls({2})
    \/ Expiry

SpecLedgerRace == InitFull /\ [][NextLedgerRace]_vars

\* concurrent callers of apply_adjustment
NextAdjustRace == AdjustCalls(Procs)

SpecAdjustRace == Init /\ [][NextAdjustRace]_vars

\* no reservation yet
InitLive == Init /\ reservations = <<>>

\* one unit on every lot: a reserve of one unit takes it from a lot, a
\* reserve of more finds no lot and is backordered
InitScarce ==
    /\ InitRows([l \in Lots |-> 1], FALSE)
    /\ InitRest

\* concurrent callers of reserve whose numbers can collide
SpecReserveCollide == InitScarce /\ [][NextReserveRace]_vars

\* reserve, with a sweep that keeps running and a clock that keeps going
NextLive ==
    \/ ReserveCalls({1})
    \/ SweepCalls({2})
    \/ Expiry

Fairness ==
    /\ WF_vars(SweepCalls({2}))
    /\ WF_vars(Tick)
    /\ WF_vars(\E p \in {1} : Reserve_Save(p) \/ Reserve_Commit(p))

SpecLive == InitLive /\ [][NextLive]_vars /\ Fairness

\* ---- properties ----
TypeOK ==
    /\ \A l \in Lots : inventory[l].quantity \in 0..MaxOnHand
    /\ Len(reservations) <= MaxRes

\* units of lot l held by the allocation lines of live reservations
Held(l) ==
    LET RECURSIVE Sum(_)
        Sum(n) == IF n = 0 THEN 0
                  ELSE (IF reservations[n].status \in LiveStatus
                        THEN SumLinesOn(reservations[n].allocations, l) ELSE 0)
                       + Sum(n - 1)
    IN Sum(Len(reservations))

\* C1: every lot has 0 <= reserved_quantity <= quantity, and its stored
\* available_quantity is quantity - reserved_quantity and is not negative
C1_LotInvariant ==
    \A l \in Lots :
        /\ 0 <= inventory[l].reserved_quantity
        /\ inventory[l].reserved_quantity <= inventory[l].quantity
        /\ inventory[l].available_quantity
              = inventory[l].quantity - inventory[l].reserved_quantity
        /\ inventory[l].available_quantity >= 0

\* C2: no double allocation: the units that the successful Reserve calls hold
\* on a lot never exceed the lot's on-hand quantity, so of N concurrent calls
\* only the M that the stock can satisfy succeed
C2_NoDoubleAllocation ==
    \A l \in Lots : Held(l) <= inventory[l].quantity

C4_ReleaseTwiceOk ==
    \A p \in Procs :
        (ret[p].op = "release" /\ reservations[ret[p].res].status = "released")
        => ret[p].ok

\* a second release attempt on a reservation that one caller has released
C5_Witness ==
    \E p1 \in Procs, p2 \in Procs :
        /\ p1 # p2
        /\ ret[p1].op = "release" /\ ret[p1].ok
        /\ ret[p2].op = "release" /\ ~ret[p2].ok
        /\ ret[p2].res = ret[p1].res
        /\ released_times[ret[p1].res] = 1

\* C5: over every interleaving of ReleaseReservation calls and sweep passes,
\* the allocation lines of a reservation are subtracted from the lots'
\* reserved_quantity by at most one release
C5_ReleaseAtMostOnce ==
    \A r \in 1..Len(reservations) : released_times[r] <= 1

\* a reservation made by Reserve with an allocation line, released right after
C6_Witness ==
    \E p \in Procs :
        /\ ret[p].op = "release" /\ ret[p].ok
        /\ last_reserve.res = ret[p].res
        /\ reservations[ret[p].res].allocations # <<>>

\* C6: Reserve followed immediately by ReleaseReservation of the created
\* reservation leaves every lot exactly as it was before the Reserve
C6_RoundTrip ==
    \A p \in Procs :
        (ret[p].op = "release" /\ ret[p].ok /\ last_reserve.res = ret[p].res)
        => inventory = last_reserve.before

\* first-expiry-first-out: earliest expiry date first, ties by creation,
\* lots without expiry date last
FEFOBefore(inv, a, b) ==
    IF inv[a].expiry_date # {} /\ inv[b].expiry_date # {}
    THEN LET da == CHOOSE d \in inv[a].expiry_date : TRUE
             db == CHOOSE d \in inv[b].expiry_date : TRUE
         IN da < db \/ (da = db /\ a < b)
    ELSE IF inv[a].expiry_date = {} /\ inv[b].expiry_date = {}
         THEN a < b
         ELSE inv[a].expiry_date # {}

RECURSIVE FEFOOrder(_, _)
FEFOOrder(inv, lots) ==
    IF lots = {} THEN <<>>
    ELSE LET first == CHOOSE a \in lots : \A b \in lots \ {a} : FEFOBefore(inv, a, b)
         IN <<first>> \o FEFOOrder(inv, lots \ {first})

RECURSIVE FEFOGreedy(_, _, _)
FEFOGreedy(inv, order, remaining) ==
    IF order = <<>> \/ remaining <= 0 THEN <<>>
    ELSE LET l == Head(order)
             take == Min(remaining, inv[l].available_quantity)
         IN <<[inventory |-> l, quantity |-> take]>>
            \o FEFOGreedy(inv, Tail(order), remaining - take)

FEFOLines(inv, quantity) ==
    FEFOGreedy(inv,
               FEFOOrder(inv, {l \in Lots : inv[l].status = "active"
                                            /\ inv[l].available_quantity > 0}),
               quantity)

\* available units over the active lots
TotalAvailable(inv) ==
    LET RECURSIVE Sum(_)
        Sum(n) == IF n = 0 THEN 0
                  ELSE (IF inv[n].status = "active" /\ inv[n].available_quantity > 0
                        THEN inv[n].available_quantity ELSE 0) + Sum(n - 1)
    IN Sum(NumLots)

\* C7: when the stock covers the request, the allocation lines of the
\* reservation made by Reserve are the greedy first-expiry-first-out split of
\* the requested quantity over the lots
C7_FEFO ==
    (/\ last_reserve.res # 0
     /\ TotalAvailable(last_reserve.before)
           >= reservations[last_reserve.res].quantity)
    => reservations[last_reserve.res].allocations
          = FEFOLines(last_reserve.before, reservations[last_reserve.res].quantity)

\* a sweep pass that released the reservation made by the latest Reserve
C8_Witness ==
    \E p \in Procs :
        /\ ret[p].op = "sweep" /\ ret[p].ok
        /\ ret[p].ids # <<>>
        /\ last_reserve.res = ret[p].ids[1]
        /\ reservations[last_reserve.res].allocations # <<>>
        /\ reservations[last_reserve.res].status = "released"

\* C8: a sweep pass that completes releases every reserved reservation whose
\* expires_at is in the past, the lots of the reservation made by the latest
\* Reserve return to their rows before that Reserve, and a second pass on the
\* result changes nothing
C8_SweepReleasesExpired ==
    [][\A p \in Procs :
          (ret'[p] # ret[p] /\ ret'[p].op = "sweep" /\ ret'[p].ok)
          => /\ \A r \in 1..Len(reservations) :
                  (reservations[r].status = "reserved"
                   /\ is_expired(reservations[r], now))
                  => /\ reservations'[r].status = "released"
                     /\ (last_reserve.res = r /\ last_reserve'.res = r)
                        => inventory' = last_reserve.before
             /\ LET again == SweepLoop(inventory', reservations', released_times',
                                       ExpiredReservations(reservations', now'))
                IN again.inv = inventory' /\ again.res = reservations']_vars

\* C9: when the release of one reservation fails in a sweep pass, the other
\* expired reservations of the pass are released all the same
C9_SweepIsolation ==
    \A p \in Procs :
        (ret[p].op = "sweep" /\ ~ret[p].ok)
        => \A i \in 1..Len(ret[p].ids) :
              ret[p].ids[i] # ret[p].res
              => reservations[ret[p].ids[i]].status = "released"

TerminalStatus == {"allocated", "released", "cancelled"}

\* a release or allocate call that returned on a reservation in a terminal
\* state which another call or a cancellation had put there
C11_Witness ==
    \E p \in Procs :
        /\ ret[p].op \in {"release", "allocate"}
        /\ ret[p].msg = "not_found"
        /\ reservations[ret[p].res].status \in TerminalStatus

\* C11: a reservation whose status is allocated, released or cancelled keeps
\* that status in every step; a ReleaseReservation or AllocateReservation call
\* on it changes no lot, and a sweep pass changes a lot only if a reservation
\* that was not terminal has an allocation line on it
C11_TerminalStates ==
    [][/\ \A r \in 1..Len(reservations) :
            reservations[r].status \in TerminalStatus
            => reservations'[r].status = reservations[r].status
       /\ \A p \in Procs :
            (/\ ret'[p] # ret[p]
             /\ ret'[p].op \in {"release", "allocate"}
             /\ reservations[ret'[p].res].status \in TerminalStatus)
            => inventory' = inventory
       /\ \A p \in Procs :
            (ret'[p] # ret[p] /\ ret'[p].op = "sweep")
            => \A l \in Lots :
                  inventory'[l] # inventory[l]
                  => \E r \in 1..Len(reservations) :
                        /\ reservations[r].status \notin TerminalStatus
                        /\ SumLinesOn(reservations[r].allocations, l) > 0]_vars

\* Reserve has made one reservation with an allocation line and one with a
\* backorder quantity
C12_Witness ==
    \E r1 \in 1..Len(reservations), r2 \in 1..Len(reservations) :
        /\ \E p \in Procs : ret[p].op = "reserve" /\ ret[p].ok /\ ret[p].res = r2
        /\ reservations[r1].allocations # <<>>
        /\ reservations[r1].backorder_quantity = 0
        /\ reservations[r2].backorder_quantity > 0

\* C12: for every reservation, the quantities of its allocation lines plus
\* its backorder_quantity add up to its requested quantity
C12_ReservationQuantity ==
    \A r \in 1..Len(reservations) :
        SumLines(reservations[r].allocations) + reservations[r].backorder_quantity
            = reservations[r].quantity

C14_PartialBackorder ==
    (/\ last_reserve.res # 0
     /\ allow_backorders
     /\ reservations[last_reserve.res].status \in LiveStatus
     /\ TotalAvailable(last_reserve.before)
           < reservations[last_reserve.res].quantity)
    => LET r == reservations[last_reserve.res]
           available == TotalAvailable(last_reserve.before)
       IN /\ SumLines(r.allocations) = available
          /\ r.backorder_quantity = r.quantity - available
          /\ r.status = "partially_reserved"

\* C15: when the delta of an adjustment item would make the lot's quantity
\* negative, the call ends there with a failure and the lots are unchanged
C15_NegativeStockRejected ==
    [][\A p \in Procs :
          (/\ pc[p] = "adjusting"
           /\ loc[p].idx <= Len(adjustment.items)
           /\ loc'[p] # loc[p]
           /\ LET item == adjustment.items[loc[p].idx] IN
              inventory[item.inventory].quantity + item.quantity_change < 0)
          => /\ pc'[p] = "idle"
             /\ ret'[p].op = "adjust" /\ ~ret'[p].ok
             /\ inventory' = inventory]_vars

\* C16: when the application of an adjustment ends in a failure, every lot is
\* as it was when the application began and the adjustment is not completed
C16_AdjustmentAtomic ==
    [][\A p \in Procs :
          (pc[p] = "adjusting" /\ pc'[p] = "idle" /\ ~ret'[p].ok)
          => /\ inventory' = loc[p].snap
             /\ adjustment'.status # "completed"]_vars

\* C17: after a ReleaseReservation call that returned success the reservation
\* has no allocation lines, its status is released and released_at is set
C17_LinesDeletedOnRelease ==
    \A p \in Procs :
        (ret[p].op = "release" /\ ret[p].ok)
        => /\ reservations[ret[p].res].allocations = <<>>
           /\ reservations[ret[p].res].status = "released"
           /\ reservations[ret[p].res].released_at

\* C18: a CheckAvailability call changes no lot and no reservation, and when
\* the combined available quantity of the active lots covers the requested
\* quantity it reports the product as available with a non-empty lot list
C18_CheckCombined ==
    [][\A p \in Procs :
          (ret'[p] # ret[p] /\ ret'[p].op = "check")
          => /\ inventory' = inventory
             /\ reservations' = reservations
             /\ TotalAvailable(inventory) >= ret'[p].quantity
                => (ret'[p].ok /\ ret'[p].ids # <<>>)]_vars

\* C19: when two concurrent Reserve calls have both succeeded, every lot's
\* reserved_quantity is the sum of the allocation lines that the live
\* reservations hold on it (no reserve is lost)
C19_NoLostReserve ==
    (\E p1 \in Procs, p2 \in Procs :
        /\ ret[p1].op = "reserve" /\ ret[p1].ok
        /\ ret[p2].op = "reserve" /\ ret[p2].ok
        /\ ret[p1].res # ret[p2].res)
    => \A l \in Lots : inventory[l].reserved_quantity = Held(l)

\* C20: every call of CheckAvailability, Reserve, ReleaseReservation,
\* AllocateReservation and ReceiveStock ends with a returned result, none
\* with an exception that leaves the operation
C20_NoUncaughtException ==
    \A p \in Procs :
        ret[p].op \in {"check", "reserve", "release", "allocate", "receive"}
        => ret[p].msg # "raised"

C23_AllocateReleasesOccupancy == [][\A p \in Procs :
    (pc[p] = "allocating" /\ pc'[p] = "idle" /\ ret'[p].ok)
    => LET quantity == SumLines(reservations[loc[p].res].allocations) IN
       /\ location'.current_volume
             = location.current_volume - quantity * UnitVolume
       /\ location'.current_weight
             = location.current_weight - quantity * UnitWeight]_vars

C26_ReservedReconciles ==
    \A l \in Lots : inventory[l].reserved_quantity = Held(l)

\* a release and an allocate were called on the same reservation by two
\* callers, and one of the two took effect
C27_Witness ==
    \E p1 \in Procs, p2 \in Procs :
        /\ p1 # p2
        /\ ret[p1].op = "release" /\ ret[p2].op = "allocate"
        /\ ret[p1].res = ret[p2].res
        /\ ret[p1].ok # ret[p2].ok

\* C27: release (or the sweep) and allocate on the same reservation exclude
\* each other: no reservation is both released and allocated, so its lines
\* are never both given back and deducted
C27_ReleaseAllocateExclusive ==
    \A r \in 1..Len(reservations) :
        ~(/\ reservations[r].allocated_at
          /\ (reservations[r].released_at \/ released_times[r] > 0))

\* C29: an adjustment is applied at most once: over any sequence or
\* interleaving of apply_adjustment calls each item changes its lot once
C29_AppliedOnce ==
    \A i \in 1..Len(adjustment.items) : adjustment.applied[i] <= 1

====
